---- MODULE Spec2Model ----
(***************************************************************************)
(* Model of src/hanoi.py: the HanoiTower puzzle state.                     *)
(*                                                                         *)
(* Python objects live in a heap with reference semantics:                 *)
(*   lists   the store of peg lists (list[int]), addressed 1..Len(lists)   *)
(*   outers  the store of state lists (list[list[int]]): each is a         *)
(*           sequence of addresses into `lists`                            *)
(*   objs    the HanoiTower instances, addressed 1..Len(objs); the fields  *)
(*           state (address into `outers`) and parent (address into        *)
(*           `objs`, 0 for None) are references                            *)
(*   last_call  the call the driver made last and what it returned/raised  *)
(*   frames  the move_disk calls in flight, one per thread, each with its   *)
(*           position in the body and its local new_state (empty where the  *)
(*           driver is single-threaded)                                     *)
(* Peg indices are 0-based as in the source; sequences are 1-based.        *)
(***************************************************************************)
EXTENDS Integers, Sequences, FiniteSets, TLC

VARIABLES objs, outers, lists, last_call, frames

vars == <<objs, outers, lists, last_call, frames>>

\* ---- bounds of the exploration ----
MaxPegs == 3
MaxDisks == 2
MaxObjs == 4

MaxLen == 2

MaxWalk == 8
MaxEqObjs == 3
MaxThreads == 2

\* the least configuration the setters accept
MinPegs == 3
MinDisks == 1

\* arguments the driver passes
PegCounts == (MinPegs - 1)..MaxPegs
DiskCounts == (MinDisks - 1)..MaxDisks
PegArgs == (-1)..MaxPegs

\* ---- Python values ----
None == <<>>
NoObj == 0

\* messages of the ValueErrors the source raises
PegsError == "pegs must be an integer greater than or equal to 3"
DisksError == "disks must be an integer greater than or equal to 1"
PegIndexError == "Invalid peg index"
MoveError == "Invalid move"
IndexError == "pop from empty list"
NoError == ""

\* ---- helpers over Python lists ----
Last(s) == s[Len(s)]
Front(s) == SubSeq(s, 1, Len(s) - 1)

\* range(n, 0, -1) as a list: n, n-1, ..., 1
RangeDown(n) == [i \in 1..n |-> n - i + 1]

\* the arrangement an outer list denotes: peg lists by value
Deref(os, ls, ref) == [p \in 1..Len(os[ref]) |-> ls[os[ref][p]]]

\* self.state of object o, by value
Arrangement(o) == Deref(outers, lists, objs[o].state)

\* ---- property setters (validation) ----
\* the lower limit off by one
pegs_setter_two(value) == IF value < MinPegs - 1 THEN PegsError ELSE NoError

pegs_setter(value) == IF value < MinPegs THEN PegsError ELSE NoError

disks_setter(value) == IF value < MinDisks THEN DisksError ELSE NoError

\* the tower built on the last peg
initial_state_last_peg(os, ls, pegs, disks) ==
    LET fresh == [p \in 1..pegs |-> IF p = pegs THEN RangeDown(disks) ELSE <<>>]
    IN  [lists  |-> ls \o fresh,
         outers |-> Append(os, [p \in 1..pegs |-> Len(ls) + p]),
         ref    |-> Len(os) + 1]

\* state setter with value None: builds the start arrangement in the heap
initial_state(os, ls, pegs, disks) ==
    LET fresh == [p \in 1..pegs |-> IF p = 1 THEN RangeDown(disks) ELSE <<>>]
    IN  [lists  |-> ls \o fresh,
         outers |-> Append(os, [p \in 1..pegs |-> Len(ls) + p]),
         ref    |-> Len(os) + 1]

\* ---- queries on an instance ----
\* the upper limit off by one
_is_valid_peg_short(o, peg_index) == 0 <= peg_index /\ peg_index < objs[o].pegs - 1

_is_valid_peg(o, peg_index) == 0 <= peg_index /\ peg_index < objs[o].pegs

\* the size test reversed
_is_valid_move_reversed(o, from_peg, to_peg) ==
    LET st == Arrangement(o)
    IN  IF from_peg = to_peg THEN FALSE
        ELSE IF st[from_peg + 1] = <<>> THEN FALSE
        ELSE IF st[to_peg + 1] = <<>> THEN TRUE
        ELSE Last(st[from_peg + 1]) > Last(st[to_peg + 1])

\* the size test with <= for <
_is_valid_move_le(o, from_peg, to_peg) ==
    LET st == Arrangement(o)
    IN  IF from_peg = to_peg THEN FALSE
        ELSE IF st[from_peg + 1] = <<>> THEN FALSE
        ELSE IF st[to_peg + 1] = <<>> THEN TRUE
        ELSE Last(st[from_peg + 1]) <= Last(st[to_peg + 1])

_is_valid_move(o, from_peg, to_peg) ==
    LET st == Arrangement(o)
    IN  IF from_peg = to_peg THEN FALSE
        ELSE IF st[from_peg + 1] = <<>> THEN FALSE
        ELSE IF st[to_peg + 1] = <<>> THEN TRUE
        ELSE Last(st[from_peg + 1]) < Last(st[to_peg + 1])

\* the first peg tested instead of the last
is_goal_state_first(o) == Len(Arrangement(o)[1]) = objs[o].disks

is_goal_state(o) == Len(Last(Arrangement(o))) = objs[o].disks

\* the loops nested the other way round: to_peg outer, from_peg inner
RECURSIVE gpm_loop_to_outer(_, _, _)
gpm_loop_to_outer(o, k, moves) ==
    LET n == objs[o].pegs
        from_peg == k % n
        to_peg == k \div n
    IN  IF k >= n * n THEN moves
        ELSE gpm_loop_to_outer(o, k + 1,
                 IF _is_valid_move(o, from_peg, to_peg)
                 THEN Append(moves, <<from_peg, to_peg>>)
                 ELSE moves)

\* the nested loops of get_possible_moves, as one counter k = from*pegs + to
RECURSIVE gpm_loop(_, _, _)
gpm_loop(o, k, moves) ==
    LET n == objs[o].pegs
        from_peg == k \div n
        to_peg == k % n
    IN  IF k >= n * n THEN moves
        ELSE gpm_loop(o, k + 1,
                 IF _is_valid_move(o, from_peg, to_peg)
                 THEN Append(moves, <<from_peg, to_peg>>)
                 ELSE moves)

\* the outer loop starts at peg 1: range(1, self.pegs)
get_possible_moves_from_one(o) == gpm_loop(o, objs[o].pegs, <<>>)

get_possible_moves(o) == gpm_loop(o, 0, <<>>)

\* ---- comparison ----
\* parent and last_action take part in the comparison
__eq__with_history(a, b) ==
    IF \/ objs[a].pegs # objs[b].pegs
       \/ objs[a].disks # objs[b].disks
       \/ Len(outers[objs[a].state]) # Len(outers[objs[b].state])
    THEN FALSE
    ELSE /\ \A p \in 1..Len(outers[objs[a].state]) : Arrangement(a)[p] = Arrangement(b)[p]
         /\ objs[a].parent = objs[b].parent
         /\ objs[a].last_action = objs[b].last_action

\* self == other for two instances: the early exit on pegs, disks and the
\* number of peg lists, then the peg lists pairwise
__eq__(a, b) ==
    IF \/ objs[a].pegs # objs[b].pegs
       \/ objs[a].disks # objs[b].disks
       \/ Len(outers[objs[a].state]) # Len(outers[objs[b].state])
    THEN FALSE
    ELSE \A p \in 1..Len(outers[objs[a].state]) : Arrangement(a)[p] = Arrangement(b)[p]

\* ---- move_disk's state construction ----
\* no copy: new_state is self.state itself
deepcopy_alias(os, ls, ref) == [lists |-> ls, outers |-> os, ref |-> ref]

\* copy.copy: a fresh outer list that holds the same peg lists
deepcopy_shallow(os, ls, ref) ==
    [lists |-> ls, outers |-> Append(os, os[ref]), ref |-> Len(os) + 1]

\* copy.deepcopy of a list of lists: a fresh outer list and one fresh peg
\* list per distinct peg list referenced (the memo keeps sharing)
deepcopy(os, ls, ref) ==
    LET src == os[ref]
        first(p) == CHOOSE q \in 1..p : src[q] = src[p] /\ \A r \in 1..(q - 1) : src[r] # src[p]
        firsts == {p \in 1..Len(src) : first(p) = p}
        rank(p) == Cardinality({q \in firsts : q <= p})
        nth(i) == CHOOSE p \in firsts : rank(p) = i
    IN  [lists  |-> ls \o [i \in 1..Cardinality(firsts) |-> ls[src[nth(i)]]],
         outers |-> Append(os, [p \in 1..Len(src) |-> Len(ls) + rank(first(p))]),
         ref    |-> Len(os) + 1]

\* the disk is put under the destination peg's disks: insert(0, ...)
transfer_insert_bottom(os, ls, ref, from_peg, to_peg) ==
    LET fid == os[ref][from_peg + 1]
        tid == os[ref][to_peg + 1]
        disk == Last(ls[fid])
        popped == [ls EXCEPT ![fid] = Front(ls[fid])]
    IN  [popped EXCEPT ![tid] = <<disk>> \o popped[tid]]

\* the top disk is read but not popped
transfer_no_pop(os, ls, ref, from_peg, to_peg) ==
    LET fid == os[ref][from_peg + 1]
        tid == os[ref][to_peg + 1]
    IN  [ls EXCEPT ![tid] = Append(ls[tid], Last(ls[fid]))]

\* new_state[to_peg].append(new_state[from_peg].pop())
transfer(os, ls, ref, from_peg, to_peg) ==
    LET fid == os[ref][from_peg + 1]
        tid == os[ref][to_peg + 1]
        disk == Last(ls[fid])
        popped == [ls EXCEPT ![fid] = Front(ls[fid])]
    IN  [popped EXCEPT ![tid] = Append(popped[tid], disk)]

\* last_action recorded as (to_peg, from_peg)
child_swapped(o, new_state, from_peg, to_peg) ==
    [pegs |-> objs[o].pegs, disks |-> objs[o].disks, state |-> new_state,
     parent |-> o, last_action |-> <<to_peg, from_peg>>]

\* the keyword arguments of the constructor call that ends move_disk
child(o, new_state, from_peg, to_peg) ==
    [pegs |-> objs[o].pegs, disks |-> objs[o].disks, state |-> new_state,
     parent |-> o, last_action |-> <<from_peg, to_peg>>]

Call(op, o, args, raised, ret, moves, flag) ==
    [op |-> op, self |-> o, args |-> args, raised |-> raised,
     ret |-> ret, moves |-> moves, flag |-> flag]

\* ---- operations ----
Init ==
    /\ objs = <<>>
    /\ outers = <<>>
    /\ lists = <<>>
    /\ last_call = Call("none", NoObj, <<>>, NoError, NoObj, <<>>, FALSE)
    /\ frames = <<>>

\* HanoiTower(pegs, disks): __init__ with state, parent, last_action = None
NewInitial(pegs, disks) ==
    IF pegs_setter(pegs) # NoError
    THEN /\ last_call' = Call("__init__", NoObj, <<pegs, disks>>, pegs_setter(pegs), NoObj, <<>>, FALSE)
         /\ UNCHANGED <<objs, outers, lists, frames>>
    ELSE IF disks_setter(disks) # NoError
    THEN /\ last_call' = Call("__init__", NoObj, <<pegs, disks>>, disks_setter(disks), NoObj, <<>>, FALSE)
         /\ UNCHANGED <<objs, outers, lists, frames>>
    ELSE /\ Len(objs) < MaxObjs
         /\ LET st == initial_state(outers, lists, pegs, disks)
            IN  /\ lists' = st.lists
                /\ outers' = st.outers
                /\ objs' = Append(objs, [pegs |-> pegs, disks |-> disks, state |-> st.ref,
                                         parent |-> NoObj, last_action |-> None])
         /\ last_call' = Call("__init__", NoObj, <<pegs, disks>>, NoError, Len(objs) + 1, <<>>, FALSE)
         /\ UNCHANGED frames

\* move_disk, the whole call
move_disk(o, from_peg, to_peg) ==
    IF ~_is_valid_peg(o, from_peg) \/ ~_is_valid_peg(o, to_peg)
    THEN /\ last_call' = Call("move_disk", o, <<from_peg, to_peg>>, PegIndexError, NoObj, <<>>, FALSE)
         /\ UNCHANGED <<objs, outers, lists, frames>>
    ELSE IF ~_is_valid_move(o, from_peg, to_peg)
    THEN /\ last_call' = Call("move_disk", o, <<from_peg, to_peg>>, MoveError, NoObj, <<>>, FALSE)
         /\ UNCHANGED <<objs, outers, lists, frames>>
    ELSE /\ LET cp == deepcopy(outers, lists, objs[o].state)
            IN  /\ lists' = transfer(cp.outers, cp.lists, cp.ref, from_peg, to_peg)
                /\ outers' = cp.outers
                /\ objs' = Append(objs, child(o, cp.ref, from_peg, to_peg))
         /\ last_call' = Call("move_disk", o, <<from_peg, to_peg>>, NoError, Len(objs) + 1, <<>>, FALSE)
         /\ UNCHANGED frames

\* move_disk accepts the call
Accepts(o, from_peg, to_peg) ==
    /\ _is_valid_peg(o, from_peg)
    /\ _is_valid_peg(o, to_peg)
    /\ _is_valid_move(o, from_peg, to_peg)

\* move_disk while the heap has room for the instance it returns
MoveDisk(o, from_peg, to_peg) ==
    /\ Accepts(o, from_peg, to_peg) => Len(objs) < MaxObjs
    /\ move_disk(o, from_peg, to_peg)

GetPossibleMoves(o) ==
    /\ last_call' = Call("get_possible_moves", o, <<>>, NoError, NoObj, get_possible_moves(o), FALSE)
    /\ UNCHANGED <<objs, outers, lists, frames>>

IsGoalState(o) ==
    /\ last_call' = Call("is_goal_state", o, <<>>, NoError, NoObj, <<>>, is_goal_state(o))
    /\ UNCHANGED <<objs, outers, lists, frames>>

\* The driver builds one puzzle and walks it forward: it constructs until a
\* construction succeeds, then calls move_disk, get_possible_moves and
\* is_goal_state on the instance it got last.
Next ==
    \/ \E pegs \in PegCounts, disks \in DiskCounts :
          objs = <<>> /\ NewInitial(pegs, disks)
    \/ \E from_peg \in PegArgs, to_peg \in PegArgs :
          objs # <<>> /\ MoveDisk(Len(objs), from_peg, to_peg)
    \/ objs # <<>> /\ GetPossibleMoves(Len(objs))
    \/ objs # <<>> /\ IsGoalState(Len(objs))

Spec == Init /\ [][Next]_vars

\* ---- one call on any arrangement the constructor accepts ----
\* HanoiTower(pegs, disks, state=value): the state setter takes any list of
\* lists of integers as it is (pegs may hold equal or badly ordered disks).
PegLists == UNION {[1..n -> 1..MaxDisks] : n \in 0..MaxLen}

InitArr ==
    /\ objs = <<[pegs |-> MinPegs, disks |-> MaxDisks, state |-> 1,
                 parent |-> NoObj, last_action |-> None]>>
    /\ outers = <<[p \in 1..MinPegs |-> p]>>
    /\ lists \in [1..MinPegs -> PegLists]
    /\ last_call = Call("__init__(state)", NoObj, <<MinPegs, MaxDisks>>, NoError, 1, <<>>, FALSE)
    /\ frames = <<>>

\* nothing was called on the instance yet
Fresh == last_call.op = "__init__(state)"

NextArr ==
    \/ \E from_peg \in 0..(MinPegs - 1), to_peg \in 0..(MinPegs - 1) :
          Fresh /\ MoveDisk(1, from_peg, to_peg)
    \/ Fresh /\ GetPossibleMoves(1)
    \/ Fresh /\ IsGoalState(1)

SpecArr == InitArr /\ [][NextArr]_vars

\* ---- the constructor called with an arrangement ----
\* HanoiTower(pegs, disks, state=value): the driver builds the list of lists
\* `value`; the pegs and disks setters validate, the state setter tests the
\* types only (always lists of integers here) and keeps the very list it
\* was given.
NewFromArrangement(pegs, disks, value) ==
    LET ref == Len(outers) + 1
        raised == IF pegs_setter(pegs) # NoError THEN pegs_setter(pegs)
                  ELSE disks_setter(disks)
    IN  /\ UNCHANGED frames
        /\ lists' = lists \o value
        /\ outers' = Append(outers, [p \in 1..Len(value) |-> Len(lists) + p])
        /\ IF raised # NoError
           THEN /\ objs' = objs
                /\ last_call' = Call("__init__(state)", NoObj, <<pegs, disks, ref>>, raised, NoObj, <<>>, FALSE)
           ELSE /\ objs' = Append(objs, [pegs |-> pegs, disks |-> disks, state |-> ref,
                                         parent |-> NoObj, last_action |-> None])
                /\ last_call' = Call("__init__(state)", NoObj, <<pegs, disks, ref>>, NoError, Len(objs) + 1, <<>>, FALSE)

\* the driver builds one arrangement, of any number of peg lists, and
\* constructs an instance from it
NextNew ==
    \E pegs \in PegCounts, disks \in DiskCounts, n \in (MinPegs - 1)..MaxPegs :
        \E value \in [1..n -> PegLists] :
            outers = <<>> /\ NewFromArrangement(pegs, disks, value)

SpecNew == Init /\ [][NextNew]_vars

\* ---- a long walk over legal moves ----
\* The driver builds a puzzle of MinPegs pegs and then, MaxWalk - 1 times at
\* most, takes one of get_possible_moves() of the instance it got last and
\* applies it with move_disk.
WalkDisks == MinDisks..(MaxDisks + 1)

NextWalk ==
    \/ \E disks \in WalkDisks : objs = <<>> /\ NewInitial(MinPegs, disks)
    \/ /\ objs # <<>>
       /\ Len(objs) < MaxWalk
       /\ \E i \in DOMAIN get_possible_moves(Len(objs)) :
             LET m == get_possible_moves(Len(objs))[i]
             IN  move_disk(Len(objs), m[1], m[2])

SpecWalk == Init /\ [][NextWalk]_vars

\* ---- the puzzle as a graph of arrangements ----
\* The rule of _is_valid_move, the effect of line 211 and the test of
\* is_goal_state as functions of the list of lists alone, and the
\* arrangements that move_disk can lead to from a start arrangement.

\* a move onto an empty peg is refused
can_move_no_empty(st, from_peg, to_peg) ==
    IF from_peg = to_peg THEN FALSE
    ELSE IF st[from_peg + 1] = <<>> THEN FALSE
    ELSE IF st[to_peg + 1] = <<>> THEN FALSE
    ELSE Last(st[from_peg + 1]) < Last(st[to_peg + 1])

can_move(st, from_peg, to_peg) ==
    IF from_peg = to_peg THEN FALSE
    ELSE IF st[from_peg + 1] = <<>> THEN FALSE
    ELSE IF st[to_peg + 1] = <<>> THEN TRUE
    ELSE Last(st[from_peg + 1]) < Last(st[to_peg + 1])

moved(st, from_peg, to_peg) ==
    [p \in DOMAIN st |->
        IF p = from_peg + 1 THEN Front(st[p])
        ELSE IF p = to_peg + 1 THEN Append(st[p], Last(st[from_peg + 1]))
        ELSE st[p]]

\* the arrangements one accepted move_disk call away from st
Successors(st) ==
    {moved(st, m[1], m[2]) :
        m \in {n \in (0..(Len(st) - 1)) \X (0..(Len(st) - 1)) : can_move(st, n[1], n[2])}}

RECURSIVE Forward(_)
Forward(S) ==
    LET T == S \cup UNION {Successors(st) : st \in S}
    IN  IF T = S THEN S ELSE Forward(T)

\* the members of U from which some walk of accepted moves ends in S
RECURSIVE Backward(_, _)
Backward(U, S) ==
    LET T == S \cup {st \in U : Successors(st) \cap S # {}}
    IN  IF T = S THEN S ELSE Backward(U, T)

Configurations == (MinPegs..MaxPegs) \X WalkDisks

\* [[disks..1]] + [[]] * (pegs - 1), as a value
start(pegs, disks) ==
    [p \in 1..pegs |-> IF p = 1 THEN RangeDown(disks) ELSE <<>>]

\* <<pegs, disks, st>> for every arrangement st that a walk of accepted
\* moves from HanoiTower(pegs, disks) meets
Reachable ==
    UNION {{<<c[1], c[2], st>> : st \in Forward({start(c[1], c[2])})} : c \in Configurations}

ReachableOf(c) == {r[3] : r \in {q \in Reachable : q[1] = c[1] /\ q[2] = c[2]}}

\* those of them from which a walk of accepted moves meets is_goal_state()
Solvable ==
    UNION {{<<c[1], c[2], st>> :
               st \in Backward(ReachableOf(c), {s \in ReachableOf(c) : Len(Last(s)) = c[2]})} :
           c \in Configurations}

\* ---- several puzzles, compared ----
\* a == b
Eq(a, b) ==
    /\ last_call' = Call("__eq__", a, <<b>>, NoError, NoObj, <<>>, __eq__(a, b))
    /\ UNCHANGED <<objs, outers, lists, frames>>

\* The driver holds up to MaxEqObjs instances: it builds puzzles, applies
\* one of get_possible_moves() to the instance it got last, and compares
\* that instance with any instance it holds.
NextEq ==
    \/ \E pegs \in MinPegs..MaxPegs, disks \in MinDisks..MaxDisks :
          Len(objs) < MaxEqObjs /\ NewInitial(pegs, disks)
    \/ /\ objs # <<>>
       /\ Len(objs) < MaxEqObjs
       /\ \E i \in DOMAIN get_possible_moves(Len(objs)) :
             LET m == get_possible_moves(Len(objs))[i]
             IN  move_disk(Len(objs), m[1], m[2])
    \/ \E b \in DOMAIN objs : Eq(Len(objs), b)

SpecEq == Init /\ [][NextEq]_vars

\* ---- move_disk called by several threads on one instance ----
\* Each thread runs the body of move_disk step by step: the two tests
\* (lines 204-208), the deep copy (210), the pop and the append of line 211
\* (the argument new_state[from_peg].pop() is evaluated before append is
\* called), and the constructor call (213). Steps of different threads
\* interleave in any order.
Threads == 1..MaxThreads

Frame(pc, o, from_peg, to_peg, new_state, disk, raised, ret) ==
    [pc |-> pc, self |-> o, from_peg |-> from_peg, to_peg |-> to_peg,
     new_state |-> new_state, disk |-> disk, raised |-> raised, ret |-> ret]

Idle == Frame("idle", NoObj, 0, 0, NoObj, 0, NoError, NoObj)

Started == {t \in Threads : frames[t].pc # "idle"}

\* the instance every thread calls move_disk on
Receiver ==
    IF Started = {} THEN Len(objs)
    ELSE frames[CHOOSE t \in Started : TRUE].self

InitConc ==
    /\ objs = <<>>
    /\ outers = <<>>
    /\ lists = <<>>
    /\ last_call = Call("none", NoObj, <<>>, NoError, NoObj, <<>>, FALSE)
    /\ frames = [t \in Threads |-> Idle]

\* thread t enters self.move_disk(from_peg, to_peg)
Enter(t, from_peg, to_peg) ==
    /\ frames[t].pc = "idle"
    /\ frames' = [frames EXCEPT ![t] =
                     Frame("check", Receiver, from_peg, to_peg, NoObj, 0, NoError, NoObj)]
    /\ UNCHANGED <<objs, outers, lists, last_call>>

\* lines 204-208
CheckStep(t) ==
    LET f == frames[t]
    IN  /\ f.pc = "check"
        /\ frames' = [frames EXCEPT ![t] =
              IF ~_is_valid_peg(f.self, f.from_peg) \/ ~_is_valid_peg(f.self, f.to_peg)
              THEN [f EXCEPT !.pc = "done", !.raised = PegIndexError]
              ELSE IF ~_is_valid_move(f.self, f.from_peg, f.to_peg)
              THEN [f EXCEPT !.pc = "done", !.raised = MoveError]
              ELSE [f EXCEPT !.pc = "copy"]]
        /\ UNCHANGED <<objs, outers, lists, last_call>>

\* line 210: new_state = copy.deepcopy(self.state)
CopyStep(t) ==
    LET f == frames[t]
        cp == deepcopy(outers, lists, objs[f.self].state)
    IN  /\ f.pc = "copy"
        /\ lists' = cp.lists
        /\ outers' = cp.outers
        /\ frames' = [frames EXCEPT ![t] = [f EXCEPT !.pc = "pop", !.new_state = cp.ref]]
        /\ UNCHANGED <<objs, last_call>>

\* line 211, the argument: new_state[from_peg].pop()
PopStep(t) ==
    LET f == frames[t]
        fid == outers[f.new_state][f.from_peg + 1]
    IN  /\ f.pc = "pop"
        /\ IF lists[fid] = <<>>
           THEN /\ frames' = [frames EXCEPT ![t] = [f EXCEPT !.pc = "done", !.raised = IndexError]]
                /\ UNCHANGED lists
           ELSE /\ frames' = [frames EXCEPT ![t] = [f EXCEPT !.pc = "append", !.disk = Last(lists[fid])]]
                /\ lists' = [lists EXCEPT ![fid] = Front(lists[fid])]
        /\ UNCHANGED <<objs, outers, last_call>>

\* line 211, the call: new_state[to_peg].append(<the popped disk>)
AppendStep(t) ==
    LET f == frames[t]
        tid == outers[f.new_state][f.to_peg + 1]
    IN  /\ f.pc = "append"
        /\ lists' = [lists EXCEPT ![tid] = Append(lists[tid], f.disk)]
        /\ frames' = [frames EXCEPT ![t] = [f EXCEPT !.pc = "construct"]]
        /\ UNCHANGED <<objs, outers, last_call>>

\* line 213: return HanoiTower(self.pegs, self.disks, new_state, parent=self, ...)
ConstructStep(t) ==
    LET f == frames[t]
    IN  /\ f.pc = "construct"
        /\ objs' = Append(objs, child(f.self, f.new_state, f.from_peg, f.to_peg))
        /\ frames' = [frames EXCEPT ![t] = [f EXCEPT !.pc = "done", !.ret = Len(objs) + 1]]
        /\ UNCHANGED <<outers, lists, last_call>>

\* One thread builds a puzzle of MinPegs pegs and may make one move; then
\* every thread calls move_disk once on the instance got last, with any two
\* different pegs.
NextConc ==
    \/ \E disks \in MinDisks..MaxDisks : objs = <<>> /\ NewInitial(MinPegs, disks)
    \/ /\ Len(objs) = 1
       /\ Started = {}
       /\ \E i \in DOMAIN get_possible_moves(1) :
             LET m == get_possible_moves(1)[i]
             IN  move_disk(1, m[1], m[2])
    \/ \E t \in Threads, from_peg \in 0..(MinPegs - 1), to_peg \in 0..(MinPegs - 1) :
          objs # <<>> /\ from_peg # to_peg /\ Enter(t, from_peg, to_peg)
    \/ \E t \in Threads : CheckStep(t)
    \/ \E t \in Threads : CopyStep(t)
    \/ \E t \in Threads : PopStep(t)
    \/ \E t \in Threads : AppendStep(t)
    \/ \E t \in Threads : ConstructStep(t)

SpecConc == InitConc /\ [][NextConc]_vars

\* ---- properties ----
StrictlyDecreasing(s) == \A i \in 1..(Len(s) - 1) : s[i] > s[i + 1]

\* how often disk d occurs in arrangement a
Occurrences(a, d) == Cardinality({pi \in (DOMAIN a) \X (1..MaxDisks + 1) :
                                    pi[2] <= Len(a[pi[1]]) /\ a[pi[1]][pi[2]] = d})

Moved == last_call.op = "move_disk" /\ last_call.raised = NoError

\* C1: on every instance reached from a start instance by successful
\* move_disk calls, every peg is strictly decreasing from bottom to top.
C1_OrderingInvariant ==
    \A o \in DOMAIN objs : \A p \in DOMAIN Arrangement(o) : StrictlyDecreasing(Arrangement(o)[p])

\* a move has just put a disk on top of another disk
C1_Witness ==
    /\ Moved
    /\ Len(Arrangement(last_call.ret)[last_call.args[2] + 1]) >= 2

\* C2: every instance has exactly `pegs` pegs, and the disks on them are
\* exactly 1..disks, each once.
C2_DiskConservation ==
    \A o \in DOMAIN objs :
        LET a == Arrangement(o)
        IN  /\ Len(a) = objs[o].pegs
            /\ \A p \in DOMAIN a : \A i \in DOMAIN a[p] : a[p][i] \in 1..objs[o].disks
            /\ \A d \in 1..objs[o].disks : Occurrences(a, d) = 1

\* an instance two moves away from its start instance, with two disks
C2_Witness ==
    \E o \in DOMAIN objs :
        /\ objs[o].disks >= 2
        /\ objs[o].parent # NoObj
        /\ objs[objs[o].parent].parent # NoObj

\* the arrangement a with the top disk of peg f put on top of peg t
AfterMove(a, f, t) ==
    [p \in DOMAIN a |-> IF p = f + 1 THEN SubSeq(a[p], 1, Len(a[p]) - 1)
                        ELSE IF p = t + 1 THEN a[p] \o <<a[f + 1][Len(a[f + 1])]>>
                        ELSE a[p]]

\* C3: a successful move_disk(from_peg, to_peg) returns a new instance whose
\* arrangement is the receiver's with the top disk of from_peg put on
\* to_peg and every other peg the same; pegs and disks are carried over,
\* parent is the receiver and last_action is (from_peg, to_peg).
C3_MoveEffect ==
    [][(last_call'.op = "move_disk" /\ last_call'.raised = NoError) =>
         LET o == last_call'.self
             c == last_call'.ret
             f == last_call'.args[1]
             t == last_call'.args[2]
         IN  /\ o \in DOMAIN objs
             /\ c \notin DOMAIN objs
             /\ c \in DOMAIN objs'
             /\ Deref(outers', lists', objs'[c].state) = AfterMove(Arrangement(o), f, t)
             /\ objs'[c].pegs = objs[o].pegs
             /\ objs'[c].disks = objs[o].disks
             /\ objs'[c].parent = o
             /\ objs'[c].last_action = <<f, t>>]_vars

\* a successful move that left a disk on a peg it did not touch
C3_Witness ==
    /\ Moved
    /\ \E p \in 0..(objs[last_call.ret].pegs - 1) :
          /\ p # last_call.args[1]
          /\ p # last_call.args[2]
          /\ Arrangement(last_call.ret)[p + 1] # <<>>

\* C4: no move_disk call, accepted or rejected, changes the fields or the
\* arrangement of any instance that exists when it is made: neither the
\* receiver nor the instances the receiver was derived from.
C4_ReceiverUnchanged ==
    [][last_call'.op = "move_disk" =>
         \A o \in DOMAIN objs :
             /\ o \in DOMAIN objs'
             /\ objs'[o] = objs[o]
             /\ Deref(outers', lists', objs'[o].state) = Arrangement(o)]_vars

\* a move accepted on an instance that was itself returned by a move
C4_Witness ==
    /\ Moved
    /\ objs[last_call.self].parent # NoObj

\* C5: for peg indices in range, _is_valid_move(from_peg, to_peg) holds iff
\* the pegs differ, the source peg is not empty, and the destination peg is
\* empty or the top disk of the source is strictly smaller than the top
\* disk of the destination.
C5_ValidMoveRule ==
    \A o \in DOMAIN objs :
        \A f \in 0..(objs[o].pegs - 1), t \in 0..(objs[o].pegs - 1) :
            LET a == Arrangement(o)
            IN  _is_valid_move(o, f, t) <=>
                    /\ f # t
                    /\ Len(a[f + 1]) > 0
                    /\ \/ Len(a[t + 1]) = 0
                       \/ a[f + 1][Len(a[f + 1])] < a[t + 1][Len(a[t + 1])]

\* move_disk was rejected between two pegs whose top disks are equal
C5_Witness ==
    /\ last_call.op = "move_disk"
    /\ last_call.raised = MoveError
    /\ last_call.args[1] # last_call.args[2]
    /\ LET a == Arrangement(last_call.self)
           f == last_call.args[1]
           t == last_call.args[2]
       IN  /\ a[f + 1] # <<>>
           /\ a[t + 1] # <<>>
           /\ a[f + 1][Len(a[f + 1])] = a[t + 1][Len(a[t + 1])]

\* C6: move_disk raises "Invalid peg index" when either index is outside
\* 0..pegs-1 (negative ones included), whatever the move; otherwise it
\* raises "Invalid move" when _is_valid_move is false; otherwise it
\* succeeds. A rejected call creates no instance.
C6_MoveOutcome ==
    [][last_call'.op = "move_disk" =>
         LET o == last_call'.self
             f == last_call'.args[1]
             t == last_call'.args[2]
             InRange(x) == 0 <= x /\ x <= objs[o].pegs - 1
         IN  IF ~(InRange(f) /\ InRange(t))
             THEN /\ last_call'.raised = PegIndexError
                  /\ last_call'.ret = NoObj
                  /\ UNCHANGED <<objs, outers, lists>>
             ELSE IF ~_is_valid_move(o, f, t)
             THEN /\ last_call'.raised = MoveError
                  /\ last_call'.ret = NoObj
                  /\ UNCHANGED <<objs, outers, lists>>
             ELSE /\ last_call'.raised = NoError
                  /\ last_call'.ret = Len(objs) + 1
                  /\ Len(objs') = Len(objs) + 1]_vars

\* the same out-of-range peg given twice: rejected for the index
C6_Witness ==
    /\ last_call.op = "move_disk"
    /\ last_call.args = <<-1, -1>>
    /\ last_call.raised = PegIndexError

\* row-major order of moves
Before(m1, m2) == m1[1] < m2[1] \/ (m1[1] = m2[1] /\ m1[2] < m2[2])

\* C7: get_possible_moves returns exactly the pairs (s, d) of distinct pegs
\* in range with _is_valid_move(s, d), each once, source ascending and then
\* destination ascending; a second call gives the same list and the call
\* changes no instance.
C7_PossibleMoves ==
    [][last_call'.op = "get_possible_moves" =>
         LET o == last_call'.self
             r == last_call'.moves
             Pegs == 0..(objs[o].pegs - 1)
         IN  /\ UNCHANGED <<objs, outers, lists>>
             /\ \A i \in DOMAIN r :
                   /\ r[i] \in Pegs \X Pegs
                   /\ r[i][1] # r[i][2]
                   /\ _is_valid_move(o, r[i][1], r[i][2])
             /\ \A s \in Pegs, d \in Pegs :
                   (s # d /\ _is_valid_move(o, s, d)) => \E i \in DOMAIN r : r[i] = <<s, d>>
             /\ \A i \in 1..(Len(r) - 1) : Before(r[i], r[i + 1])
             /\ (last_call.op = "get_possible_moves" /\ last_call.self = o)
                   => r = last_call.moves]_vars

\* moves from two source pegs were returned
C7_Witness ==
    /\ last_call.op = "get_possible_moves"
    /\ Len(last_call.moves) >= 3
    /\ last_call.moves[1][1] # last_call.moves[Len(last_call.moves)][1]

\* C8: is_goal_state is true iff the last peg holds `disks` disks; on the
\* instances reached from a start instance that is exactly when the last
\* peg is disks..1 bottom to top and every other peg is empty. It is false
\* on a start instance.
C8_GoalState ==
    /\ \A o \in DOMAIN objs :
          LET a == Arrangement(o)
              n == objs[o].pegs
              d == objs[o].disks
          IN  /\ is_goal_state(o) <=> Len(a[n]) = d
              /\ is_goal_state(o) <=>
                    /\ a[n] = [i \in 1..d |-> d - i + 1]
                    /\ \A p \in 1..(n - 1) : a[p] = <<>>
              /\ objs[o].parent = NoObj => ~is_goal_state(o)
    /\ last_call.op = "is_goal_state" => last_call.flag = is_goal_state(last_call.self)

\* is_goal_state answered true on a puzzle of two or more disks
C8_Witness ==
    /\ last_call.op = "is_goal_state"
    /\ last_call.flag
    /\ objs[last_call.self].disks >= 2

\* the start arrangement: all disks on peg 0, largest at the bottom
StartArrangement(pegs, disks) ==
    [p \in 1..pegs |-> IF p = 1 THEN [i \in 1..disks |-> disks - i + 1] ELSE <<>>]

\* C9: HanoiTower(pegs, disks) with pegs >= 3 and disks >= 1 gives an
\* instance with exactly `pegs` pegs, peg 0 holding disks..1 bottom to top,
\* the other pegs empty, no parent and no last_action.
C9_InitialInstance ==
    /\ (last_call.op = "__init__" /\ last_call.args[1] >= 3 /\ last_call.args[2] >= 1) =>
          /\ last_call.raised = NoError
          /\ last_call.ret \in DOMAIN objs
          /\ objs[last_call.ret].pegs = last_call.args[1]
          /\ objs[last_call.ret].disks = last_call.args[2]
          /\ Arrangement(last_call.ret) = StartArrangement(last_call.args[1], last_call.args[2])
          /\ objs[last_call.ret].parent = NoObj
          /\ objs[last_call.ret].last_action = None
    /\ \A o \in DOMAIN objs :
          objs[o].parent = NoObj =>
              /\ Arrangement(o) = StartArrangement(objs[o].pegs, objs[o].disks)
              /\ objs[o].last_action = None

\* a start instance of two disks was just built
C9_Witness ==
    /\ last_call.op = "__init__"
    /\ last_call.raised = NoError
    /\ last_call.args[2] >= 2
    /\ Len(Arrangement(last_call.ret)[1]) >= 2

\* the messages the spec calls InvalidConfiguration
InvalidConfiguration == {PegsError, DisksError}

\* C10: HanoiTower(pegs, disks) raises a configuration error iff pegs < 3
\* or disks < 1, and then no instance is created.
C10_InvalidConfiguration ==
    [][last_call'.op = "__init__" =>
         /\ last_call'.raised \in InvalidConfiguration
               <=> (last_call'.args[1] < 3 \/ last_call'.args[2] < 1)
         /\ last_call'.raised \in InvalidConfiguration \cup {NoError}
         /\ last_call'.raised # NoError =>
               /\ last_call'.ret = NoObj
               /\ UNCHANGED <<objs, outers, lists>>
         /\ last_call'.raised = NoError =>
               /\ Len(objs') = Len(objs) + 1
               /\ last_call'.ret = Len(objs')]_vars

\* HanoiTower(2, 1) was rejected
C10_Witness ==
    /\ last_call.op = "__init__"
    /\ last_call.args = <<2, 1>>
    /\ last_call.raised = PegsError

\* an arrangement that is not `pegs` peg lists holding 1..disks once each
Malformed(a, pegs, disks) ==
    \/ Len(a) # pegs
    \/ \E p \in DOMAIN a : \E i \in DOMAIN a[p] : a[p][i] \notin 1..disks
    \/ \E d \in 1..disks : Occurrences(a, d) # 1

\* C11: HanoiTower(pegs, disks, state=value) raises a configuration error
\* whenever value does not have exactly `pegs` peg lists, or holds an
\* element outside 1..disks, or does not hold each of 1..disks exactly once.
C11_MalformedRejected ==
    last_call.op = "__init__(state)" =>
        (Malformed(Deref(outers, lists, last_call.args[3]), last_call.args[1], last_call.args[2])
             => last_call.raised \in InvalidConfiguration)

\* the moves that led from the start instance to o, in order
RECURSIVE Lineage(_)
Lineage(o) ==
    IF objs[o].parent = NoObj THEN <<>>
    ELSE Append(Lineage(objs[o].parent), objs[o].last_action)

Script == <<<<0, 1>>, <<0, 2>>, <<1, 2>>, <<0, 1>>, <<2, 0>>, <<2, 1>>, <<0, 1>>>>

\* Script with pegs 1 and 2 exchanged
Mirrored == <<<<0, 2>>, <<0, 1>>, <<2, 1>>, <<0, 2>>, <<1, 0>>, <<1, 2>>, <<0, 2>>>>

OnThreeByThree(o) == objs[o].pegs = 3 /\ objs[o].disks = 3

\* every instance reached along a prefix of the moves s accepts the next move of s
LegalAlong(s) ==
    \A o \in DOMAIN objs :
        LET k == Len(Lineage(o))
        IN  (OnThreeByThree(o) /\ k < Len(s) /\ Lineage(o) = SubSeq(s, 1, k))
                => _is_valid_move(o, s[k + 1][1], s[k + 1][2])

\* C12 as stated: the moves (0,1),(0,2),(1,2),(0,1),(2,0),(2,1),(0,1) from
\* HanoiTower(3, 3) are legal at every step and end in [[],[],[3,2,1]] with
\* is_goal_state() true.
C12_ScriptReachesGoal ==
    /\ LegalAlong(Script)
    /\ \A o \in DOMAIN objs :
          (OnThreeByThree(o) /\ Lineage(o) = Script) =>
              /\ Arrangement(o) = <<<<>>, <<>>, <<3, 2, 1>>>>
              /\ is_goal_state(o)

\* C12 amended: the moves are legal at every step and end in [[],[3,2,1],[]],
\* the tower on peg 1, where is_goal_state() is false; the same moves with
\* pegs 1 and 2 exchanged end in [[],[],[3,2,1]] with is_goal_state() true.
C12_ScriptEndsOnPegOne ==
    /\ LegalAlong(Script)
    /\ LegalAlong(Mirrored)
    /\ \A o \in DOMAIN objs :
          /\ (OnThreeByThree(o) /\ Lineage(o) = Script) =>
                /\ Arrangement(o) = <<<<>>, <<3, 2, 1>>, <<>>>>
                /\ ~is_goal_state(o)
          /\ (OnThreeByThree(o) /\ Lineage(o) = Mirrored) =>
                /\ Arrangement(o) = <<<<>>, <<>>, <<3, 2, 1>>>>
                /\ is_goal_state(o)

\* the seven moves were applied in order
C12_Witness ==
    /\ Moved
    /\ OnThreeByThree(last_call.ret)
    /\ Lineage(last_call.ret) = Script

\* C13: on 3 pegs with N disks no instance with is_goal_state() true is
\* fewer than 2^N - 1 accepted moves away from the start instance (and one
\* is exactly that many moves away).
C13_MinimalMoves ==
    \A o \in DOMAIN objs :
        (objs[o].pegs = 3 /\ is_goal_state(o)) => Len(Lineage(o)) >= 2 ^ objs[o].disks - 1

\* three disks were brought to the last peg in exactly 2^3 - 1 moves
C13_Witness ==
    /\ Moved
    /\ objs[last_call.ret].pegs = 3
    /\ objs[last_call.ret].disks = 3
    /\ is_goal_state(last_call.ret)
    /\ Len(Lineage(last_call.ret)) = 2 ^ 3 - 1

\* C14: after an accepted move (a, b) the move (b, a) is legal on the
\* instance returned, and applying it gives an instance whose arrangement
\* is that of the instance (a, b) was applied to, and which compares equal
\* to it.
C14_MoveReversible ==
    \A c \in DOMAIN objs :
        objs[c].parent # NoObj =>
            LET o == objs[c].parent
                a == objs[c].last_action[1]
                b == objs[c].last_action[2]
            IN  /\ _is_valid_move(c, b, a)
                /\ \A g \in DOMAIN objs :
                      (objs[g].parent = c /\ objs[g].last_action = <<b, a>>) =>
                          /\ Arrangement(g) = Arrangement(o)
                          /\ __eq__(g, o)
                          /\ __eq__(o, g)

\* a move onto a peg that held a disk was just taken back
C14_Witness ==
    /\ Moved
    /\ objs[last_call.self].parent # NoObj
    /\ objs[last_call.self].last_action = <<last_call.args[2], last_call.args[1]>>
    /\ Len(Arrangement(last_call.self)[last_call.args[1] + 1]) >= 2

SameConfiguration(a, b) ==
    /\ objs[a].pegs = objs[b].pegs
    /\ objs[a].disks = objs[b].disks
    /\ Arrangement(a) = Arrangement(b)

\* C15: two instances compare equal iff their pegs, their disks and their
\* peg lists are equal; parent and last_action play no part.
C15_Equality ==
    /\ \A a \in DOMAIN objs, b \in DOMAIN objs : __eq__(a, b) <=> SameConfiguration(a, b)
    /\ last_call.op = "__eq__" =>
          (last_call.flag <=> SameConfiguration(last_call.self, last_call.args[1]))

\* a start instance and an instance two moves away from it compared equal
C15_Witness ==
    /\ last_call.op = "__eq__"
    /\ last_call.flag
    /\ objs[last_call.self].parent # NoObj
    /\ objs[last_call.args[1]].parent = NoObj
    /\ objs[last_call.self].last_action # objs[last_call.args[1]].last_action

\* C16: from an instance with is_goal_state() true, every legal move whose
\* source is not the last peg gives an instance with is_goal_state() still
\* true; is_goal_state() can turn false only by a move off the last peg.
C16_GoalIdempotence ==
    \A o \in DOMAIN objs :
        is_goal_state(o) =>
            LET terminal == objs[o].pegs - 1
                moves == get_possible_moves(o)
            IN  /\ \A i \in DOMAIN moves :
                      moves[i][1] # terminal =>
                          Len(Last(AfterMove(Arrangement(o), moves[i][1], moves[i][2])))
                              = objs[o].disks
                /\ \A c \in DOMAIN objs :
                      objs[c].parent = o =>
                          /\ objs[c].last_action[1] # terminal => is_goal_state(c)
                          /\ ~is_goal_state(c) => objs[c].last_action[1] = terminal

\* a disk was moved off the last peg of a goal instance of two or more disks
C16_Witness ==
    /\ Moved
    /\ objs[last_call.self].disks >= 2
    /\ is_goal_state(last_call.self)
    /\ ~is_goal_state(last_call.ret)
    /\ objs[last_call.ret].last_action[1] = objs[last_call.self].pegs - 1

\* the instances from the start instance down to o, following parent links
RECURSIVE Ancestry(_)
Ancestry(o) ==
    IF objs[o].parent = NoObj THEN <<o>>
    ELSE Append(Ancestry(objs[o].parent), o)

\* the moves applied in order to the arrangement a
RECURSIVE Replay(_, _)
Replay(a, moves) ==
    IF moves = <<>> THEN a
    ELSE Replay(AfterMove(a, moves[1][1], moves[1][2]), Tail(moves))

\* C17: an instance got from a start instance by k accepted move_disk calls
\* reaches that start instance (parent None, last_action None) in exactly
\* k parent links without meeting an instance twice; at every link the
\* child's arrangement is the parent's present arrangement with the child's
\* last_action applied, so replaying the recorded moves from the start
\* arrangement gives the instance's arrangement.
C17_Lineage ==
    /\ \A o \in DOMAIN objs : objs[o].parent < o
    /\ \A o \in DOMAIN objs :
          LET chain == Ancestry(o)
              root == chain[1]
          IN  /\ Len(chain) = o
              /\ Len(Lineage(o)) = Len(chain) - 1
              /\ \A i \in DOMAIN chain, j \in DOMAIN chain : chain[i] = chain[j] => i = j
              /\ objs[root].parent = NoObj
              /\ objs[root].last_action = None
              /\ Arrangement(root) = StartArrangement(objs[o].pegs, objs[o].disks)
              /\ \A i \in 2..Len(chain) :
                    /\ objs[chain[i]].parent = chain[i - 1]
                    /\ Arrangement(chain[i]) =
                          AfterMove(Arrangement(chain[i - 1]),
                                    objs[chain[i]].last_action[1],
                                    objs[chain[i]].last_action[2])
              /\ Arrangement(o) = Replay(Arrangement(root), Lineage(o))

\* an instance four moves away from its start instance was returned
C17_Witness ==
    /\ Moved
    /\ Len(Ancestry(last_call.ret)) = 5
    /\ objs[last_call.ret].disks >= 2

\* the peg lists a state list refers to
PegListsOf(ref) == {outers[ref][p] : p \in DOMAIN outers[ref]}

\* the state lists owned by an instance or by a call in flight
OwnedStates ==
    {objs[o].state : o \in DOMAIN objs}
        \cup {frames[t].new_state : t \in {u \in Threads : frames[u].new_state # NoObj}}

\* C18: when several threads run move_disk on the same instance with their
\* steps (tests, deep copy, pop, append, constructor) interleaved in any
\* order, every call returns the instance it returns when run alone
\* (or raises as it does alone), the instances share no state list and no
\* peg list with each other or with the receiver, and the receiver's
\* arrangement is the same in every state of every interleaving.
C18_ConcurrentDerivation ==
    /\ \A o \in DOMAIN objs :
          Arrangement(o) = Replay(StartArrangement(objs[o].pegs, objs[o].disks), Lineage(o))
    /\ \A t \in Threads :
          LET f == frames[t]
          IN  f.pc = "done" =>
                IF _is_valid_move(f.self, f.from_peg, f.to_peg)
                THEN /\ f.raised = NoError
                     /\ f.ret \in DOMAIN objs
                     /\ objs[f.ret] = child(f.self, f.new_state, f.from_peg, f.to_peg)
                     /\ Arrangement(f.ret)
                           = AfterMove(Arrangement(f.self), f.from_peg, f.to_peg)
                ELSE f.raised = MoveError /\ f.ret = NoObj
    /\ \A a \in DOMAIN objs, b \in DOMAIN objs : a # b => objs[a].state # objs[b].state
    /\ \A t \in Threads, u \in Threads :
          (t # u /\ frames[t].new_state # NoObj) => frames[t].new_state # frames[u].new_state
    /\ \A t \in Threads, o \in DOMAIN objs :
          (frames[t].new_state # NoObj /\ frames[t].ret # o) => frames[t].new_state # objs[o].state
    /\ \A r \in OwnedStates, s \in OwnedStates : r # s => PegListsOf(r) \cap PegListsOf(s) = {}

\* two calls overlapped (thread 1 copied first and returned last); both
\* moved the same disk of a receiver that holds disks on two pegs
C18_Witness ==
    /\ frames # <<>>
    /\ frames[1].pc = "done" /\ frames[2].pc = "done"
    /\ frames[1].raised = NoError /\ frames[2].raised = NoError
    /\ frames[1].new_state < frames[2].new_state
    /\ frames[1].ret > frames[2].ret
    /\ frames[1].from_peg = frames[2].from_peg
    /\ objs[frames[1].self].parent # NoObj

\* every reachable arrangement, the start arrangements included, has a walk
\* of accepted moves to a goal arrangement
AllSolvable ==
    /\ \A c \in Configurations : <<c[1], c[2], start(c[1], c[2])>> \in Solvable
    /\ Reachable \subseteq Solvable

\* C19: for every pegs >= 3 and disks >= 1 within the bounds, from every
\* arrangement that accepted move_disk calls lead to from HanoiTower(pegs,
\* disks), the start arrangement included, some finite walk of accepted
\* move_disk calls ends in an instance with is_goal_state() true. The
\* instances the driver holds are such arrangements, and their accepted
\* moves, children and goal test are the ones the walks are built from.
C19_GoalReachable ==
    /\ AllSolvable
    /\ \A o \in DOMAIN objs :
          LET st == Arrangement(o)
              pegs == 0..(objs[o].pegs - 1)
          IN  /\ <<objs[o].pegs, objs[o].disks, st>> \in Reachable
              /\ <<objs[o].pegs, objs[o].disks, st>> \in Solvable
              /\ \A f \in pegs, t \in pegs : _is_valid_move(o, f, t) <=> can_move(st, f, t)
              /\ is_goal_state(o) <=> Len(Last(st)) = objs[o].disks
              /\ objs[o].parent # NoObj =>
                    /\ Arrangement(o) \in Successors(Arrangement(objs[o].parent))
                    /\ Arrangement(o) = moved(Arrangement(objs[o].parent),
                                              objs[o].last_action[1], objs[o].last_action[2])

\* the driver is five moves into a puzzle of three disks, not at a goal
C19_Witness ==
    /\ Moved
    /\ objs[last_call.ret].disks = 3
    /\ Len(Lineage(last_call.ret)) = 5
    /\ ~is_goal_state(last_call.ret)
    /\ Arrangement(last_call.ret) # Arrangement(1)

\* the pegs whose top disk is disk 1
SmallestOnTop(st) == {p \in DOMAIN st : st[p] # <<>> /\ Last(st[p]) = 1}

\* every reachable arrangement has an accepted move
AllMovable == \A r \in Reachable : Successors(r[3]) # {}

\* C20: every instance reachable from HanoiTower(pegs, disks) has a legal
\* move: get_possible_moves() is never empty, goal instances included,
\* because the peg with disk 1 on top may move it to every other peg.
C20_NoDeadEnd ==
    /\ AllMovable
    /\ \A o \in DOMAIN objs :
          LET st == Arrangement(o)
              moves == get_possible_moves(o)
          IN  /\ moves # <<>>
              /\ Cardinality(SmallestOnTop(st)) = 1
              /\ \A p \in SmallestOnTop(st), q \in DOMAIN st :
                    q # p =>
                        /\ _is_valid_move(o, p - 1, q - 1)
                        /\ \E i \in DOMAIN moves : moves[i] = <<p - 1, q - 1>>

\* a move was taken from a goal instance of two disks, which lists
\* exactly the moves of disk 1 off the last peg
C20_Witness ==
    /\ Moved
    /\ objs[last_call.self].disks = 2
    /\ is_goal_state(last_call.self)
    /\ Len(get_possible_moves(last_call.self)) = objs[last_call.self].pegs - 1

====
